---- MODULE Spec2Model ----
(***************************************************************************)
(* Model of hooks/init-project.py: category-driven symlink                 *)
(* materialization (remove_existing_symlinks,                              *)
(* create_symlinks_from_available, main) and document splicing             *)
(* (extract_sections, update_claude_md).                                   *)
(*                                                                         *)
(* The project root holds three source directories <kind>-available and    *)
(* three target directories <kind>.  A source directory is a set of        *)
(* children (category, name, shape); a target directory is a function from *)
(* entry names to entries (ordinary file, ordinary directory, symlink).    *)
(* A source directory, a category directory or local/ that does not exist  *)
(* is one without children: the code only ever asks exists() of them.  A   *)
(* target directory is "ok", "missing" (it does not exist) or "readonly"   *)
(* (entries cannot be created or unlinked in it), see dirState.            *)
(***************************************************************************)
EXTENDS Integers, Sequences, FiniteSets, TLC

VARIABLES src, categories, excludes, tgt, agentsMd, skillsMd, claudeMd,
          extracted, ret, cfg, config, dirState, io, run

vars == <<src, categories, excludes, tgt, agentsMd, skillsMd, claudeMd,
          extracted, ret, cfg, config, dirState, io, run>>

(***************************************************************************)
(* Bounds of the model.                                                    *)
(***************************************************************************)
MaxCats == 2      \* longest `categories` list of a configuration
MaxItems == 2     \* most children in the three source trees together
MaxLines == 6     \* most lines of a reference document
MaxDoc == 5       \* most tokens of an existing target document
MaxCrashes == 1   \* most crashes of main before a run completes

(***************************************************************************)
(* Names and paths.                                                        *)
(***************************************************************************)
Kinds == {"skills", "agents", "commands"}

KindOrder == <<"skills", "agents", "commands">>

CatDirs == {"dev", "php", "local"}

CfgCats == {"dev", "php"}

Names == {"a.md", "a", "b.md"}

\* Path.suffix
Suffix(n) == CASE n = "a.md" -> ".md"
               [] n = "b.md" -> ".md"
               [] OTHER -> ""

\* Path.stem
Stem(n) == CASE n = "a.md" -> "a"
             [] n = "b.md" -> "b"
             [] OTHER -> n

\* source_dir.name of the source directory that main pairs with target k
SourceDirName(k) == CASE k = "skills" -> "skills-available"
                      [] k = "agents" -> "agents-available"
                      [] k = "commands" -> "commands-available"

\* source_dir.name.replace("-available", "")
SourceName(d) == CASE d = "skills-available" -> "skills"
                   [] d = "agents-available" -> "agents"
                   [] d = "commands-available" -> "commands"
                   [] OTHER -> d

\* Path("..") / source_dir.name / category / item.name
RelativeTarget(k, cat, name) == <<"..", SourceDirName(k), cat, name>>

\* Paths outside the source trees that exist (e.g. <root>/old-target.md).
Outside == {<<"..", "old-target.md">>}

Dangling == <<"nowhere">>

(***************************************************************************)
(* Directory entries.                                                      *)
(***************************************************************************)
FileEntry(c) == [t |-> "file", content |-> c, inner |-> {}, to |-> <<>>]

DirEntry(links) == [t |-> "dir", content |-> "", inner |-> links, to |-> <<>>]

LinkEntry(p) == [t |-> "link", content |-> "", inner |-> {}, to |-> p]

Remove(d, n) == [x \in DOMAIN d \ {n} |-> d[x]]

Put(d, n, e) == [x \in DOMAIN d \cup {n} |-> IF x = n THEN e ELSE d[x]]

EmptyDir == [x \in {} |-> FileEntry("")]

\* The source child a path names, if any (the set is empty or a singleton).
SourceAt(p) == {e \in src : p = RelativeTarget(e.kind, e.cat, e.name)}

\* A path, taken relative to a target directory, names something that exists.
PathExists(p) == p \in Outside \/ SourceAt(p) # {}

\* Mutant: every entry passes for a symlink.
IsSymlinkAny(d, n) == n \in DOMAIN d

\* Path.is_symlink()
IsSymlink(d, n) == n \in DOMAIN d /\ d[n].t = "link"

\* Path.exists(): follows symlinks, so a dangling link does not exist.
Exists(d, n) == n \in DOMAIN d /\ (d[n].t = "link" => PathExists(d[n].to))

Links(d) == {n \in DOMAIN d : d[n].t = "link"}

NonLinks(d) == DOMAIN d \ Links(d)

(***************************************************************************)
(* remove_existing_symlinks(directory)                                     *)
(***************************************************************************)
\* Mutant: the loop tests item.exists() and not item.is_symlink(), so only
\* dangling entries are unlinked.
RemoveOnlyDangling(d) == [n \in {x \in DOMAIN d : Exists(d, x)} |-> d[n]]

\* Mutant: the loop unlinks every entry that is not a directory.
RemoveFilesToo(d) == [n \in {x \in DOMAIN d : d[x].t = "dir"} |-> d[n]]

\* The directory after the loop: every direct entry that is a symlink is
\* unlinked; the entries are distinct names, so the order does not matter.
RemoveExistingSymlinksDir(d) == [n \in NonLinks(d) |-> d[n]]

\* Mutant: count is incremented for every entry of the directory.
RemoveCountsEveryEntry(d) == Cardinality(DOMAIN d)

\* The returned count.
RemoveExistingSymlinksCount(d) == Cardinality(Links(d))

\* The call on a directory that is ok, missing or readonly: iterdir raises
\* when the directory does not exist, the first unlink when it is readonly.
RemoveExistingSymlinksInMode(d, mode) ==
    IF mode = "missing"
    THEN [dir |-> d, count |-> 0, exc |-> "FileNotFoundError"]
    ELSE IF mode = "readonly" /\ Links(d) # {}
    THEN [dir |-> d, count |-> 0, exc |-> "PermissionError"]
    ELSE [dir |-> RemoveExistingSymlinksDir(d),
          count |-> RemoveExistingSymlinksCount(d), exc |-> ""]

(***************************************************************************)
(* create_symlinks_from_available(source_dir, target_dir, categories,      *)
(* excludes).  A loop state is [dir, count, err, warned]: the target       *)
(* directory, the local `count`, whether an exception was raised (the loop *)
(* stops there), and the names for which the warning was printed.          *)
(***************************************************************************)
LoopState(d) ==
    [dir |-> d, count |-> 0, err |-> FALSE, warned |-> {}, mode |-> "ok", exc |-> ""]

\* An exception leaves the function: the loops stop there.
Raise(st, exc) == [st EXCEPT !.err = TRUE, !.exc = exc]

\* os.symlink: FileExistsError when the name is taken (by anything, a
\* dangling link included).
SymlinkTo(st, n, p) ==
    IF st.mode = "missing" THEN Raise(st, "FileNotFoundError")
    ELSE IF n \in DOMAIN st.dir THEN Raise(st, "FileExistsError")
    ELSE IF st.mode = "readonly" THEN Raise(st, "PermissionError")
    ELSE [st EXCEPT !.dir = Put(@, n, LinkEntry(p)), !.count = @ + 1]

\* Mutant: whatever holds the name is unlinked and replaced.
LinkCategoryItemOverwrite(st, k, cat, n) ==
    SymlinkTo([st EXCEPT !.dir = Remove(st.dir, n)], n, RelativeTarget(k, cat, n))

\* Lines 91-101 and 113-123: replace a link, skip a non-link, create.
LinkCategoryItem(st, k, cat, n) ==
    IF Exists(st.dir, n) /\ ~IsSymlink(st.dir, n)
    THEN [st EXCEPT !.warned = @ \cup {n}]
    ELSE IF Exists(st.dir, n) /\ st.mode = "readonly"
    THEN Raise(st, "PermissionError")
    ELSE LET d1 == IF Exists(st.dir, n) THEN Remove(st.dir, n) ELSE st.dir
         IN  SymlinkTo([st EXCEPT !.dir = d1], n, RelativeTarget(k, cat, n))

\* One child of a category directory (lines 83-123).
CategoryItem(st, k, e, excl) ==
    IF st.err THEN st
    ELSE IF Suffix(e.name) = ".md" /\ e.shape = "file"
    THEN IF <<SourceName(SourceDirName(k)), Stem(e.name)>> \in excl
         THEN st
         ELSE LinkCategoryItem(st, k, e.cat, e.name)
    ELSE IF e.shape = "skill"
    THEN IF <<SourceName(SourceDirName(k)), e.name>> \in excl
         THEN st
         ELSE LinkCategoryItem(st, k, e.cat, e.name)
    ELSE st

\* Mutant: the local loop handles flat .md files only.
LocalItemFlatOnly(st, k, e) ==
    IF st.err THEN st
    ELSE IF Suffix(e.name) = ".md" /\ e.shape = "file"
    THEN IF ~Exists(st.dir, e.name)
         THEN SymlinkTo(st, e.name, RelativeTarget(k, "local", e.name))
         ELSE st
    ELSE st

\* One child of local/ (lines 128-142).
LocalItem(st, k, e) ==
    IF st.err THEN st
    ELSE IF (Suffix(e.name) = ".md" /\ e.shape = "file") \/ e.shape = "skill"
    THEN IF ~Exists(st.dir, e.name)
         THEN SymlinkTo(st, e.name, RelativeTarget(k, "local", e.name))
         ELSE st
    ELSE st

\* category_dir.iterdir(): the children of <k>-available/<cat>; the
\* directory exists iff it has a child.
Children(k, cat) == {e \in src : e.kind = k /\ e.cat = cat}

\* The loop states after iterating over the children E in every order
\* iterdir can produce, from each of the loop states S.
RECURSIVE IterCategory(_, _, _, _)
IterCategory(S, k, E, excl) ==
    IF E = {} THEN S
    ELSE UNION {IterCategory({CategoryItem(st, k, e, excl) : st \in S},
                             k, E \ {e}, excl) : e \in E}

RECURSIVE IterLocal(_, _, _)
IterLocal(S, k, E) ==
    IF E = {} THEN S
    ELSE UNION {IterLocal({LocalItem(st, k, e) : st \in S}, k, E \ {e}) : e \in E}

\* Mutant: every category directory is walked, listed or not.
RECURSIVE IterEveryCategory(_, _, _, _)
IterEveryCategory(S, k, cats, excl) ==
    IF cats = <<>> THEN S
    ELSE IterEveryCategory(IterCategory(S, k, Children(k, Head(cats)), excl),
                           k, Tail(cats), excl)

IterCategoriesUnlisted(S, k, cats, excl) ==
    IterEveryCategory(S, k, <<"dev", "php">>, excl)

\* for category in categories (lines 78-123)
RECURSIVE IterCategories(_, _, _, _)
IterCategories(S, k, cats, excl) ==
    IF cats = <<>> THEN S
    ELSE IterCategories(IterCategory(S, k, Children(k, Head(cats)), excl),
                        k, Tail(cats), excl)

\* The possible outcomes of one call on target directory d.
CreateSymlinksFromAvailable(k, d, cats, excl) ==
    IterLocal(IterCategories({LoopState(d)}, k, cats, excl), k, Children(k, "local"))

\* The same on a target directory that is ok, missing or readonly.
CreateSymlinksInMode(k, d, mode, cats, excl) ==
    IterLocal(IterCategories({[LoopState(d) EXCEPT !.mode = mode]}, k, cats, excl),
              k, Children(k, "local"))

(***************************************************************************)
(* Text.  A reference document (AGENTS.md, SKILLS.md) is the sequence of   *)
(* its lines, content.split("\n"); <<>> stands for a missing file.  A line *)
(* is a category header (name: what (\w+) captures), an item header (name: *)
(* what (\S+) captures; tail: more text follows on the line), a text line  *)
(* (name: the line) or a blank line.  A string is a sequence of tokens:    *)
(* "nl" is a newline, the markers are BA, EA, BS, ES, every other token is *)
(* a run of non-blank text.                                                *)
(***************************************************************************)
Line(k, name, tail) == [k |-> k, name |-> name, tail |-> tail]

BlankLine == Line("blank", "", FALSE)

\* f"### {current_section}"
ItemHeader(n) == CASE n = "a" -> "### a"
                   [] n = "b" -> "### b"
                   [] OTHER -> "### ?"

\* An item header line as it stands in the document: "### ", the name, and
\* the rest of the line if there is one.
HeaderLine(l) == IF l.tail
                 THEN CASE l.name = "a" -> "### a - rest"
                        [] l.name = "b" -> "### b - rest"
                        [] OTHER -> "### ? - rest"
                 ELSE ItemHeader(l.name)

\* The line as it is appended to section_content.
LineText(l) == IF l.k = "blank" THEN "" ELSE l.name

\* "\n".join(lines)
RECURSIVE Join(_)
Join(ls) ==
    IF ls = <<>> THEN <<>>
    ELSE (IF Head(ls) = "" THEN <<>> ELSE <<Head(ls)>>)
         \o (IF Len(ls) > 1 THEN <<"nl">> \o Join(Tail(ls)) ELSE <<>>)

Whitespace == {"nl"}

\* str.rstrip()
RECURSIVE RStrip(_)
RStrip(s) ==
    IF s # <<>> /\ s[Len(s)] \in Whitespace THEN RStrip(SubSeq(s, 1, Len(s) - 1)) ELSE s

\* str.lstrip()
RECURSIVE LStrip(_)
LStrip(s) == IF s # <<>> /\ Head(s) \in Whitespace THEN LStrip(Tail(s)) ELSE s

\* str.strip()
Strip(s) == LStrip(RStrip(s))

(***************************************************************************)
(* extract_sections(md_file, categories, section_type)                     *)
(***************************************************************************)
ScanState == [extracted |-> <<>>, section |-> "", open |-> FALSE,
              content |-> <<>>, inTarget |-> FALSE]

\* "Save previous section if it was in a target category" (lines 166-169,
\* 181-184, 195-198).
Flush(st) ==
    IF st.inTarget /\ st.open /\ st.content # <<>>
    THEN st.extracted \o <<ItemHeader(st.section)>> \o st.content \o <<"">>
    ELSE st.extracted

\* The loop body (lines 161-192).
ScanLine(st, l, cats) ==
    IF l.k = "cat"
    THEN [extracted |-> Flush(st), section |-> "", open |-> FALSE,
          content |-> <<>>, inTarget |-> \E i \in DOMAIN cats : cats[i] = l.name]
    ELSE IF l.k = "item"
    THEN [st EXCEPT !.extracted = Flush(st), !.section = l.name, !.open = TRUE,
                    !.content = <<>>]
    ELSE IF st.open
    THEN [st EXCEPT !.content = Append(@, LineText(l))]
    ELSE st

RECURSIVE Scan(_, _, _)
Scan(st, ls, cats) ==
    IF ls = <<>> THEN st ELSE Scan(ScanLine(st, Head(ls), cats), Tail(ls), cats)

\* Mutant: the section that is open at the end of the document is dropped.
ExtractWithoutLastSection(doc, cats) ==
    IF doc = <<>> THEN <<>>
    ELSE Strip(Join(Scan(ScanState, doc, cats).extracted))

ExtractSections(doc, cats) ==
    IF doc = <<>> THEN <<>>
    ELSE Strip(Join(Flush(Scan(ScanState, doc, cats))))

(***************************************************************************)
(* update_claude_md(project_root, categories)                              *)
(***************************************************************************)
AgentSection(text) ==
    <<"BA", "nl", "notice-agents", "nl", "notice-regenerate", "nl", "nl">>
    \o text \o <<"nl", "nl", "EA">>

SkillSection(text) ==
    <<"BS", "nl", "notice-skills", "nl", "notice-regenerate", "nl", "nl">>
    \o text \o <<"nl", "nl", "ES">>

GuidelinesSection(a, s) ==
    <<"nl", "## Agent and Skill Guidelines", "nl", "nl">> \o a \o <<"nl", "nl">>
    \o s \o <<"nl">>

Has(s, tok) == \E i \in DOMAIN s : s[i] = tok

First(s, tok) == CHOOSE i \in DOMAIN s : s[i] = tok /\ \A j \in 1..(i - 1) : s[j] # tok

\* Text tokens that hold a backslash escape the regex template rejects.
BadEscapes == {"\\d"}

\* re.sub(begin.*?end, repl, content, flags=re.DOTALL) once the template is
\* accepted: every leftmost shortest begin..end stretch becomes repl.
RECURSIVE SubAll(_, _, _, _)
SubAll(content, begin, end, repl) ==
    IF ~Has(content, begin) THEN content
    ELSE LET i == First(content, begin)
             rest == SubSeq(content, i + 1, Len(content))
         IN  IF ~Has(rest, end) THEN content
             ELSE LET j == First(rest, end)
                  IN  SubSeq(content, 1, i - 1) \o repl
                      \o SubAll(SubSeq(rest, j + 1, Len(rest)), begin, end, repl)

\* The template (the replacement string) raises re.error on a bad escape.
TemplateError(repl) == \E i \in DOMAIN repl : repl[i] \in BadEscapes

\* Mutant: the replacement is emptied of its text lines.
ExpandTemplateDropsText(repl) ==
    SelectSeq(repl, LAMBDA t : t \in {"BA", "EA", "BS", "ES", "nl"})

\* What re.sub inserts for the template: an escape it knows is processed,
\* the text "\n" (backslash, n) becomes a newline; other text is copied.
ExpandTemplate(repl) ==
    [i \in DOMAIN repl |-> IF repl[i] = "\\n" THEN "nl" ELSE repl[i]]

\* Mutant: the existing content is not kept.
AppendOverwrites(text, g) == <<"nl">> \o g

\* content.rstrip() + "\n" + guidelines_section (line 272)
AppendGuidelines(text, g) == RStrip(text) \o <<"nl">> \o g

\* The outcome [exists, text, err] of update_claude_md on target document md.
UpdateClaudeMdText(md, agentsDoc, skillsDoc, cats) ==
    LET a == AgentSection(ExtractSections(agentsDoc, cats))
        s == SkillSection(ExtractSections(skillsDoc, cats))
        g == GuidelinesSection(a, s)
    IN  IF ~md.exists
        THEN [exists |-> TRUE, text |-> <<"# CLAUDE.md", "nl">> \o g, err |-> FALSE]
        ELSE IF /\ Has(md.text, "BA") /\ Has(md.text, "EA")
                /\ Has(md.text, "BS") /\ Has(md.text, "ES")
        THEN IF TemplateError(a)
             THEN [exists |-> TRUE, text |-> md.text, err |-> TRUE]
             ELSE LET c1 == SubAll(md.text, "BA", "EA", ExpandTemplate(a))
                  IN  IF TemplateError(s)
                      THEN [exists |-> TRUE, text |-> md.text, err |-> TRUE]
                      ELSE [exists |-> TRUE,
                            text |-> SubAll(c1, "BS", "ES", ExpandTemplate(s)),
                            err |-> FALSE]
        ELSE [exists |-> TRUE, text |-> AppendGuidelines(md.text, g), err |-> FALSE]

\* The marker lines that target document md holds (the tests of lines 253-254).
MarkersOf(md) == {m \in {"BA", "EA", "BS", "ES"} : md.exists /\ Has(md.text, m)}

\* The branch of lines 246-272 that the call takes on target document md.
UpdateBranch(md) ==
    IF ~md.exists THEN "create"
    ELSE IF /\ Has(md.text, "BA") /\ Has(md.text, "EA")
            /\ Has(md.text, "BS") /\ Has(md.text, "ES")
    THEN "replace"
    ELSE "append"

(***************************************************************************)
(* load_project_config(project_root).  A configuration file is absent,     *)
(* malformed (not JSON) or valid; a valid one holds an object whose keys   *)
(* name, categories and exclude are each absent (<<>>) or present with a   *)
(* value (<<value>>).                                                      *)
(***************************************************************************)
NoConfig == [name |-> <<>>, categories |-> <<>>, exclude |-> <<>>, loaded |-> FALSE]

Config(name, cats, excl) ==
    [name |-> name, categories |-> cats, exclude |-> excl, loaded |-> TRUE]

AbsentFile == [state |-> "absent", config |-> NoConfig]

MalformedFile == [state |-> "malformed", config |-> NoConfig]

ValidFile(c) == [state |-> "valid", config |-> c]

\* dict.get(key, default)
Get(opt, default) == IF opt = <<>> THEN default ELSE opt[1]

\* A line written by print(), or the traceback of an uncaught exception.
Msg(m, k, name, n) == [m |-> m, kind |-> k, name |-> name, n |-> n]

NotFoundMessages ==
    {Msg("Error: project.json not found.", "-", "-", 0),
     Msg("Run /init-project to create one interactively.", "-", "-", 0)}

\* Mutant: a file that does not parse is read as the empty object.
LoadMalformedAsEmpty(c) ==
    LET path == IF c.direct.state # "absent" THEN "direct" ELSE "nested"
        f == c[path]
    IN  IF f.state = "absent"
        THEN [config |-> NoConfig, exc |-> "SystemExit(1)", stdout |-> NotFoundMessages,
              path |-> "-"]
        ELSE IF f.state = "malformed"
        THEN [config |-> Config(<<>>, <<>>, <<>>), exc |-> "", stdout |-> {},
              path |-> path]
        ELSE [config |-> f.config, exc |-> "", stdout |-> {}, path |-> path]

\* Mutant: the development location is tried first.
LoadNestedFirst(c) ==
    LET f == IF c.nested.state # "absent" THEN c.nested ELSE c.direct
    IN  IF f.state = "absent"
        THEN [config |-> NoConfig, exc |-> "SystemExit(1)", stdout |-> NotFoundMessages,
              path |-> "-"]
        ELSE IF f.state = "malformed"
        THEN [config |-> NoConfig, exc |-> "JSONDecodeError", stdout |-> {},
              path |-> IF c.nested.state # "absent" THEN "nested" ELSE "direct"]
        ELSE [config |-> f.config, exc |-> "", stdout |-> {},
              path |-> IF c.nested.state # "absent" THEN "nested" ELSE "direct"]

\* The outcome of the call on the two locations c.direct (<root>/project.json)
\* and c.nested (<root>/.claude/project.json): the object returned, or the
\* exception that leaves the function, and what was printed.
LoadProjectConfig(c) ==
    LET path == IF c.direct.state # "absent" THEN "direct" ELSE "nested"
        f == c[path]
    IN  IF f.state = "absent"
        THEN [config |-> NoConfig, exc |-> "SystemExit(1)", stdout |-> NotFoundMessages,
              path |-> "-"]
        ELSE IF f.state = "malformed"
        THEN [config |-> NoConfig, exc |-> "JSONDecodeError", stdout |-> {},
              path |-> path]
        ELSE [config |-> f.config, exc |-> "", stdout |-> {}, path |-> path]

(***************************************************************************)
(* Output.  io is what the last operation wrote: the lines on stdout and   *)
(* on stderr (as sets, their order is not modelled), the exception that    *)
(* left the function (raised), and for main the exit status of the process.*)
(***************************************************************************)
NoIo == [stdout |-> {}, stderr |-> {}, exit |-> "-", raised |-> ""]

\* A function call: an exception goes to the caller.
Call(stdout, exc) == [stdout |-> stdout, stderr |-> {}, exit |-> "-", raised |-> exc]

\* The end of the process: sys.exit(1) exits with status 1, an uncaught
\* exception prints its traceback on stderr and exits with status 1.
ProcessExit(stdout, exc) ==
    [stdout |-> stdout,
     stderr |-> IF exc \in {"", "SystemExit(1)"} THEN {}
                ELSE {Msg("Traceback", "-", exc, 0)},
     exit |-> IF exc = "" THEN "0" ELSE "1",
     raised |-> exc]

Warnings(warned) ==
    {Msg("Warning: exists and is not a symlink, skipping", w[1], w[2], 0) : w \in warned}

(***************************************************************************)
(* State: the source trees and the configuration are fixed during a        *)
(* behaviour; ret is what the last operation returned.  For a creation     *)
(* that directly follows the purge of the same directory ret.fresh holds,  *)
(* and ret.prev carries the outcome (links and count) of the purge-then-   *)
(* create run that directly preceded this one, if there was one.           *)
(***************************************************************************)
ZeroCounts == [k \in Kinds |-> 0]

Ret(op, k, removed, counts, err, warned) ==
    [op |-> op, kind |-> k, removed |-> removed, counts |-> counts,
     err |-> err, warned |-> warned, fresh |-> FALSE, prev |-> <<>>]

LinkView(d) == [n \in Links(d) |-> d[n].to]

\* Source children the model draws from.
SkillChildren == {<<"a.md", "file">>, <<"a", "skill">>}

SrcPool ==
    {[kind |-> "skills", cat |-> c, name |-> ns[1], shape |-> ns[2]] :
        c \in CatDirs, ns \in SkillChildren}
    \cup {[kind |-> "skills", cat |-> "dev", name |-> "a", shape |-> "plain"],
          [kind |-> "skills", cat |-> "dev", name |-> "a", shape |-> "file"],
          [kind |-> "skills", cat |-> "dev", name |-> "b.md", shape |-> "file"],
          [kind |-> "agents", cat |-> "dev", name |-> "a.md", shape |-> "file"],
          [kind |-> "commands", cat |-> "local", name |-> "a.md", shape |-> "file"]}

SrcTrees ==
    {S \in SUBSET SrcPool :
        /\ Cardinality(S) <= MaxItems
        /\ \A e, f \in S : (e.kind = f.kind /\ e.cat = f.cat /\ e.name = f.name) => e = f}

RECURSIVE SeqsUpTo(_, _)
SeqsUpTo(S, n) ==
    IF n = 0 THEN {<<>>}
    ELSE LET R == SeqsUpTo(S, n - 1)
         IN  R \cup {Append(s, x) : s \in {r \in R : Len(r) = n - 1}, x \in S}

ExcludeLists == {{}, {<<"skills", "a">>}}

\* What the target directories may hold before the first operation: nothing,
\* or one entry.
PreEntries ==
    {<<"skills", "a.md", FileEntry("manual")>>,
     <<"skills", "a.md", LinkEntry(Dangling)>>,
     <<"skills", "a.md", LinkEntry(<<"..", "old-target.md">>)>>,
     <<"skills", "a", DirEntry({"inner-link"})>>,
     <<"skills", "a", LinkEntry(RelativeTarget("skills", "php", "a"))>>,
     <<"skills", "a", LinkEntry(RelativeTarget("agents", "dev", "a.md"))>>,
     <<"commands", "a.md", FileEntry("init")>>}

PreTargets ==
    {[k \in Kinds |-> EmptyDir]}
    \cup {[k \in Kinds |-> IF k = p[1] THEN Put(EmptyDir, p[2], p[3]) ELSE EmptyDir] :
            p \in PreEntries}

\* Lines of the reference documents the model draws from.
RefLines ==
    {Line("cat", "dev", FALSE), Line("cat", "php", FALSE), Line("item", "a", FALSE),
     Line("item", "a", TRUE), Line("text", "t1", FALSE), BlankLine}

\* Category lists of the extraction runs.
ExtractCategories == {<<>>, <<"dev">>, <<"php">>, <<"php", "dev">>}

RefDocs == SeqsUpTo(RefLines, MaxLines) \ {<<>>}

PlainDoc == <<Line("cat", "dev", FALSE), Line("item", "a", FALSE),
              Line("text", "t1", FALSE)>>

EscapeDoc == <<Line("cat", "dev", FALSE), Line("item", "a", FALSE),
               Line("text", "\\d", FALSE)>>

\* Tokens of an existing target document.
MdTokens == {"x", "nl", "BA", "EA", "BS", "ES"}

NoMd == [exists |-> FALSE, text |-> <<>>]

TargetDocs == {NoMd} \cup {[exists |-> TRUE, text |-> t] : t \in SeqsUpTo(MdTokens, MaxDoc)}

\* Configuration objects and files the model draws from.
Configs ==
    {Config(<<"proj">>, <<c>>, e) :
        c \in SeqsUpTo(CfgCats, MaxCats), e \in {<<>>, <<{<<"skills", "a">>}>>}}
    \cup {Config(<<>>, <<>>, <<>>), Config(<<>>, <<<<"php">>>>, <<{}>>)}

ConfigFiles == {AbsentFile, MalformedFile} \cup {ValidFile(c) : c \in Configs}

NoFiles == [direct |-> AbsentFile, nested |-> AbsentFile]

DevConfig == Config(<<"proj">>, <<<<"dev">>>>, <<>>)

Modes == {"ok", "missing", "readonly"}

AllOk == [k \in Kinds |-> "ok"]

\* Every target directory is ok, or one of them is not.
DirStates ==
    {AllOk} \cup {[AllOk EXCEPT ![k] = m] : k \in Kinds, m \in Modes \ {"ok"}}

\* No run of main is under way.  A run that is stepped through one
\* filesystem operation at a time is at pc "purge" or "create", in the target
\* directory KindOrder[k]; in the creation it walks directory number ci (a
\* listed category, or local after the last one) and has the children todo
\* left.  crashes, at, seen and clean record the crashes so far, where the
\* last one struck, the links it left, and the links that a run without
\* crash produces from the state the first run started in.
NoRun == [pc |-> "idle", k |-> 1, ci |-> 1, todo |-> {}, crashes |-> 0,
          at |-> "-", seen |-> <<>>, clean |-> {}]

InitResult ==
    /\ extracted = <<>>
    /\ ret = Ret("init", "-", 0, ZeroCounts, FALSE, {})
    /\ config = NoConfig
    /\ io = NoIo
    /\ run = NoRun

\* Symlink materialization: any source tree, configuration and target tree.
Init ==
    /\ src \in SrcTrees
    /\ categories \in SeqsUpTo(CfgCats, MaxCats)
    /\ excludes \in ExcludeLists
    /\ tgt \in PreTargets
    /\ agentsMd = PlainDoc
    /\ skillsMd = <<>>
    /\ claudeMd = NoMd
    /\ cfg = NoFiles
    /\ dirState = AllOk
    /\ InitResult

\* The same with a target directory that may be missing or readonly.
InitDirs ==
    /\ src \in SrcTrees
    /\ categories \in {<<>>, <<"dev">>, <<"php">>}
    /\ excludes = {}
    /\ dirState \in DirStates
    /\ tgt \in {t \in PreTargets : \A k \in Kinds : dirState[k] = "missing" => t[k] = EmptyDir}
    /\ agentsMd = PlainDoc
    /\ skillsMd = <<>>
    /\ claudeMd = NoMd
    /\ cfg = NoFiles
    /\ InitResult

\* Runs of main: each target directory may hold an entry of its own.
MainTargets ==
    {[k \in Kinds |-> CASE k = "skills" -> s[1] [] k = "agents" -> s[2] [] OTHER -> s[3]] :
        s \in {t["skills"] : t \in PreTargets}
              \X {EmptyDir, Put(EmptyDir, "a.md", LinkEntry(Dangling))}
              \X {EmptyDir, Put(EmptyDir, "a.md", FileEntry("init"))}}

\* A small project: one skill of category dev, a stale link and a file.
SampleSrc == {[kind |-> "skills", cat |-> "dev", name |-> "a", shape |-> "skill"]}

SampleTgt ==
    [k \in Kinds |-> CASE k = "skills" -> Put(EmptyDir, "a.md", LinkEntry(Dangling))
                       [] k = "commands" -> Put(EmptyDir, "a.md", FileEntry("init"))
                       [] OTHER -> EmptyDir]

SampleDocs == {NoMd} \cup {[exists |-> TRUE, text |-> t] :
                             t \in {<<"x">>, <<"BA", "x", "EA", "BS", "ES">>, <<"BA", "EA">>}}

\* A body line that is the two characters backslash and n.
NewlineDoc == <<Line("cat", "dev", FALSE), Line("item", "a", FALSE),
                Line("text", "\\n", FALSE)>>

RefPairs == {<<<<>>, <<>>>>, <<PlainDoc, PlainDoc>>, <<EscapeDoc, <<>>>>,
             <<PlainDoc, EscapeDoc>>, <<NewlineDoc, <<>>>>}

\* Runs of main over: every valid configuration, source tree and target tree;
\* every pair of configuration files; a target directory that is missing or
\* readonly; the reference and target documents.
InitMain ==
    /\ categories = <<>>
    /\ excludes = {}
    /\ InitResult
    /\ \/ /\ \E c \in Configs : cfg = [direct |-> ValidFile(c), nested |-> AbsentFile]
          /\ src \in SrcTrees
          /\ tgt \in MainTargets
          /\ dirState = AllOk
          /\ agentsMd = PlainDoc /\ skillsMd = <<>> /\ claudeMd = NoMd
       \/ /\ cfg \in [direct : ConfigFiles, nested : ConfigFiles]
          /\ src = SampleSrc
          /\ tgt = SampleTgt
          /\ dirState = AllOk
          /\ agentsMd = PlainDoc /\ skillsMd = <<>> /\ claudeMd = NoMd
       \/ /\ cfg = [direct |-> ValidFile(DevConfig), nested |-> AbsentFile]
          /\ src \in SrcTrees
          /\ dirState \in DirStates \ {AllOk}
          /\ tgt \in {t \in MainTargets :
                        \A k \in Kinds : dirState[k] = "missing" => t[k] = EmptyDir}
          /\ agentsMd = PlainDoc /\ skillsMd = <<>> /\ claudeMd = NoMd
       \/ /\ cfg = [direct |-> ValidFile(DevConfig), nested |-> AbsentFile]
          /\ src = SampleSrc
          /\ tgt = SampleTgt
          /\ dirState = AllOk
          /\ \E p \in RefPairs : agentsMd = p[1] /\ skillsMd = p[2]
          /\ claudeMd \in SampleDocs

\* Two concurrent runs: a skill of category dev, the same name in local/, an
\* agent of category dev; targets with a link that resolves, a dangling
\* link, a directory or a file under the name of an item.
\* The two processes; a process before main is entered; ov: the other
\* process was running when this one entered main.
Procs == {1, 2}

Other(p) == 3 - p

ParIdle == [pc |-> "idle", k |-> 1, ci |-> 1, todo |-> {}, cur |-> "-",
            exc |-> "", ov |-> FALSE]

Active(r) == r.pc \notin {"idle", "done", "failed"}

ParPool ==
    {[kind |-> "skills", cat |-> "dev", name |-> "a", shape |-> "skill"],
     [kind |-> "skills", cat |-> "local", name |-> "a", shape |-> "skill"],
     [kind |-> "agents", cat |-> "dev", name |-> "a.md", shape |-> "file"]}

ParTargets ==
    {[k \in Kinds |-> CASE k = "skills" -> s [] k = "agents" -> a
                         [] OTHER -> Put(EmptyDir, "a.md", FileEntry("init"))] :
        s \in {EmptyDir,
               Put(EmptyDir, "a", LinkEntry(CHOOSE o \in Outside : TRUE)),
               Put(EmptyDir, "a", LinkEntry(Dangling)),
               Put(EmptyDir, "a", DirEntry({}))},
        a \in {EmptyDir, Put(EmptyDir, "a.md", LinkEntry(Dangling)),
               Put(EmptyDir, "a.md", FileEntry("mine"))}}

InitPar ==
    /\ src \in SUBSET ParPool \ {{}}
    /\ categories \in {<<"dev">>, <<"dev", "dev">>}
    /\ excludes = {}
    /\ tgt \in ParTargets
    /\ agentsMd = <<>> /\ skillsMd = <<>> /\ claudeMd = NoMd
    /\ cfg = [direct |-> ValidFile(DevConfig), nested |-> AbsentFile]
    /\ dirState = AllOk
    /\ extracted = <<>>
    /\ ret = Ret("init", "-", 0, ZeroCounts, FALSE, {})
    /\ config = DevConfig
    /\ io = NoIo
    /\ run = [p \in Procs |-> ParIdle]

\* Section extraction: any reference document and category list.
InitExtract ==
    /\ src = {}
    /\ categories \in ExtractCategories
    /\ excludes = {}
    /\ tgt = [k \in Kinds |-> EmptyDir]
    /\ agentsMd \in RefDocs
    /\ skillsMd = <<>>
    /\ claudeMd = NoMd
    /\ cfg = NoFiles
    /\ dirState = AllOk
    /\ InitResult

\* Document splicing: any target document.
InitMd ==
    /\ src = {}
    /\ categories = <<"dev">>
    /\ excludes = {}
    /\ tgt = [k \in Kinds |-> EmptyDir]
    /\ \E p \in RefPairs : agentsMd = p[1] /\ skillsMd = p[2]
    /\ claudeMd \in TargetDocs
    /\ cfg = NoFiles
    /\ dirState = AllOk
    /\ InitResult

\* Configuration loading: any pair of configuration files.
InitLoad ==
    /\ src = {}
    /\ categories = <<>>
    /\ excludes = {}
    /\ tgt = [k \in Kinds |-> EmptyDir]
    /\ agentsMd = <<>>
    /\ skillsMd = <<>>
    /\ claudeMd = NoMd
    /\ cfg \in [direct : ConfigFiles, nested : ConfigFiles]
    /\ dirState = AllOk
    /\ InitResult

RemoveExistingSymlinks(k) ==
    LET r == RemoveExistingSymlinksInMode(tgt[k], dirState[k])
    IN  /\ tgt' = [tgt EXCEPT ![k] = r.dir]
        /\ ret' = [Ret("remove", k, r.count, ZeroCounts, r.exc # "", {})
                    EXCEPT !.prev = IF ret.op = "create" /\ ret.kind = k /\ ret.fresh
                                    THEN <<[links |-> LinkView(tgt[k]),
                                            count |-> ret.counts[k]]>>
                                    ELSE <<>>]
        /\ io' = Call({}, r.exc)
        /\ UNCHANGED <<src, categories, excludes, agentsMd, skillsMd, claudeMd,
                       extracted, cfg, config, dirState, run>>

CreateSymlinks(k) ==
    \E st \in CreateSymlinksInMode(k, tgt[k], dirState[k], categories, excludes) :
        /\ tgt' = [tgt EXCEPT ![k] = st.dir]
        /\ ret' = [Ret("create", k, 0, [ZeroCounts EXCEPT ![k] = st.count],
                       st.err, {<<k, n>> : n \in st.warned})
                   EXCEPT !.fresh = (ret.op = "remove" /\ ret.kind = k),
                          !.prev = IF ret.op = "remove" /\ ret.kind = k
                                   THEN ret.prev ELSE <<>>]
        /\ io' = Call(Warnings({<<k, n>> : n \in st.warned}), st.exc)
        /\ UNCHANGED <<src, categories, excludes, agentsMd, skillsMd, claudeMd,
                       extracted, cfg, config, dirState, run>>

ExtractSectionsCall ==
    \E f \in {"AGENTS.md", "SKILLS.md"} :
        /\ extracted' = ExtractSections(IF f = "AGENTS.md" THEN agentsMd ELSE skillsMd,
                                        categories)
        /\ ret' = Ret("extract", f, 0, ZeroCounts, FALSE, {})
        /\ io' = Call({}, "")
        /\ UNCHANGED <<src, categories, excludes, tgt, agentsMd, skillsMd, claudeMd,
                       cfg, config, dirState, run>>

UpdateClaudeMd ==
    LET r == UpdateClaudeMdText(claudeMd, agentsMd, skillsMd, categories)
    IN  /\ claudeMd' = [exists |-> r.exists, text |-> r.text]
        /\ ret' = [Ret("update", UpdateBranch(claudeMd), 0, ZeroCounts, r.err, {})
                    EXCEPT !.prev = <<MarkersOf(claudeMd)>>]
        /\ io' = Call({}, IF r.err THEN "re.error" ELSE "")
        /\ UNCHANGED <<src, categories, excludes, tgt, agentsMd, skillsMd,
                       extracted, cfg, config, dirState, run>>

LoadProjectConfigCall ==
    LET l == LoadProjectConfig(cfg)
    IN  /\ config' = l.config
        /\ ret' = Ret("load", l.path, 0, ZeroCounts, l.exc # "", {})
        /\ io' = Call(l.stdout, l.exc)
        /\ UNCHANGED <<src, categories, excludes, tgt, agentsMd, skillsMd, claudeMd,
                       extracted, cfg, dirState, run>>

\* The three purges of main (lines 304-307), in order; an exception ends them.
RECURSIVE MainPurge(_, _)
MainPurge(p, ks) ==
    IF ks = <<>> \/ p.exc # "" THEN p
    ELSE LET r == RemoveExistingSymlinksInMode(p.t[Head(ks)], dirState[Head(ks)])
         IN  MainPurge([t |-> [p.t EXCEPT ![Head(ks)] = r.dir],
                        removed |-> p.removed + r.count, exc |-> r.exc], Tail(ks))

\* The three creations of main (lines 313-315), in order; an exception ends
\* them.
RECURSIVE MainCreate(_, _, _, _)
MainCreate(S, ks, cats, excl) ==
    IF ks = <<>> THEN S
    ELSE MainCreate(
            UNION {IF m.err THEN {m}
                   ELSE {[t |-> [m.t EXCEPT ![Head(ks)] = st.dir],
                          counts |-> [m.counts EXCEPT ![Head(ks)] = st.count],
                          err |-> st.err,
                          exc |-> st.exc,
                          warned |-> m.warned \cup {<<Head(ks), n>> : n \in st.warned}] :
                            st \in CreateSymlinksInMode(
                                      Head(ks), m.t[Head(ks)], dirState[Head(ks)],
                                      cats, excl)} :
                   m \in S},
            Tail(ks), cats, excl)

\* What main prints before the purges, after them, after the creations and
\* at its end.
MainHead(c, cats, excl) ==
    {Msg("Initializing project", "-", Get(c.name, "unnamed"), 0),
     Msg("Categories", "-", "-", Len(cats))}
    \cup (IF excl # {} THEN {Msg("Excludes", "-", "-", Cardinality(excl))} ELSE {})

MainRemoved(n) == IF n > 0 THEN {Msg("Removed existing symlinks", "-", "-", n)} ELSE {}

MainCounts(counts) == {Msg("loaded", k, "-", counts[k]) : k \in Kinds}

MainDone == {Msg("CLAUDE.md updated", "-", "-", 0), Msg("Done!", "-", "-", 0)}

\* main() as a process (lines 278-328): load_project_config, the three
\* purges, the three creations in the order skills, agents, commands, then
\* update_claude_md.  sys.exit or an exception ends the run where it is
\* raised, with what was done and printed until then.
Main ==
    LET l == LoadProjectConfig(cfg)
        cats == Get(l.config.categories, <<>>)
        excl == Get(l.config.exclude, {})
        head == MainHead(l.config, cats, excl)
        p == MainPurge([t |-> tgt, removed |-> 0, exc |-> ""], KindOrder)
        start == [t |-> p.t, counts |-> ZeroCounts, err |-> FALSE, exc |-> "",
                  warned |-> {}]
    IN  /\ IF l.exc # ""
           THEN /\ io' = ProcessExit(l.stdout, l.exc)
                /\ ret' = Ret("main", "-", 0, ZeroCounts, TRUE, {})
                /\ UNCHANGED <<tgt, claudeMd, categories, excludes, config>>
           ELSE /\ config' = l.config
                /\ categories' = cats
                /\ excludes' = excl
                /\ IF p.exc # ""
                   THEN /\ tgt' = p.t
                        /\ claudeMd' = claudeMd
                        /\ io' = ProcessExit(head, p.exc)
                        /\ ret' = Ret("main", "-", p.removed, ZeroCounts, TRUE, {})
                   ELSE \E m \in MainCreate({start}, KindOrder, cats, excl) :
                          LET r == IF m.err
                                   THEN [exists |-> claudeMd.exists,
                                         text |-> claudeMd.text, err |-> TRUE]
                                   ELSE UpdateClaudeMdText(claudeMd, agentsMd,
                                                           skillsMd, cats)
                              exc == IF m.err THEN m.exc
                                     ELSE IF r.err THEN "re.error" ELSE ""
                              out == head \cup MainRemoved(p.removed)
                                     \cup Warnings(m.warned)
                                     \cup (IF m.err THEN {} ELSE MainCounts(m.counts))
                                     \cup (IF exc = "" THEN MainDone ELSE {})
                          IN  /\ tgt' = m.t
                              /\ claudeMd' = [exists |-> r.exists, text |-> r.text]
                              /\ ret' = Ret("main", "-", p.removed, m.counts,
                                            exc # "", m.warned)
                              /\ io' = ProcessExit(out, exc)
        /\ UNCHANGED <<src, agentsMd, skillsMd, extracted, cfg, dirState, run>>

(***************************************************************************)
(* main, one filesystem operation at a time (lines 303-315), with a        *)
(* process that may die between any two of them.  The configuration is     *)
(* loaded: categories and excludes hold its lists.                         *)
(***************************************************************************)
AllLinks(t) == [k \in Kinds |-> LinkView(t[k])]

\* The links a run that does not crash leaves.
CleanRuns ==
    LET p == MainPurge([t |-> tgt, removed |-> 0, exc |-> ""], KindOrder)
    IN  {AllLinks(m.t) :
            m \in MainCreate({[t |-> p.t, counts |-> ZeroCounts, err |-> FALSE,
                                exc |-> "", warned |-> {}]},
                              KindOrder, categories, excludes)}

\* The directory the creation walks at position ci.
CatAt(ci) == IF ci <= Len(categories) THEN categories[ci] ELSE "local"

\* Mutant: the purge leaves the links that resolve.
PurgeTodoDangling(d) == {n \in Links(d) : ~Exists(d, n)}

\* The entries that the loop of remove_existing_symlinks has yet to unlink.
PurgeTodo(d) == Links(d)

StartRun ==
    /\ run.pc \in {"idle", "crashed"}
    /\ run' = [run EXCEPT !.pc = "purge", !.k = 1, !.ci = 1, !.todo = {},
                          !.clean = IF run.pc = "idle" THEN CleanRuns ELSE @]
    /\ UNCHANGED <<src, categories, excludes, tgt, agentsMd, skillsMd, claudeMd,
                   extracted, ret, cfg, config, dirState, io>>

\* One unlink of a purge, or the move to the next directory.
PurgeStep ==
    /\ run.pc = "purge"
    /\ LET kind == KindOrder[run.k]
       IN  IF PurgeTodo(tgt[kind]) # {}
           THEN /\ \E n \in PurgeTodo(tgt[kind]) :
                      tgt' = [tgt EXCEPT ![kind] = Remove(@, n)]
                /\ run' = run
           ELSE /\ tgt' = tgt
                /\ run' = IF run.k < Len(KindOrder)
                          THEN [run EXCEPT !.k = @ + 1]
                          ELSE [run EXCEPT !.pc = "create", !.k = 1, !.ci = 1,
                                           !.todo = Children(KindOrder[1], CatAt(1))]
    /\ UNCHANGED <<src, categories, excludes, agentsMd, skillsMd, claudeMd,
                   extracted, ret, cfg, config, dirState, io>>

\* One child of the directory being walked, or the move to the next one.
CreateStep ==
    /\ run.pc = "create"
    /\ LET kind == KindOrder[run.k]
       IN  IF run.todo # {}
           THEN \E e \in run.todo :
                  LET st == IF run.ci <= Len(categories)
                            THEN CategoryItem(LoopState(tgt[kind]), kind, e, excludes)
                            ELSE LocalItem(LoopState(tgt[kind]), kind, e)
                  IN  /\ tgt' = [tgt EXCEPT ![kind] = st.dir]
                      /\ run' = IF st.err THEN [run EXCEPT !.pc = "failed"]
                                ELSE [run EXCEPT !.todo = @ \ {e}]
           ELSE /\ tgt' = tgt
                /\ run' = IF run.ci <= Len(categories)
                          THEN [run EXCEPT !.ci = @ + 1,
                                           !.todo = Children(kind, CatAt(run.ci + 1))]
                          ELSE IF run.k < Len(KindOrder)
                          THEN [run EXCEPT !.k = @ + 1, !.ci = 1,
                                           !.todo = Children(KindOrder[run.k + 1],
                                                             CatAt(1))]
                          ELSE [run EXCEPT !.pc = "done"]
    /\ UNCHANGED <<src, categories, excludes, agentsMd, skillsMd, claudeMd,
                   extracted, ret, cfg, config, dirState, io>>

\* The process dies between two filesystem operations.
Crash ==
    /\ run.pc \in {"purge", "create"}
    /\ run.crashes < MaxCrashes
    /\ run' = [run EXCEPT !.pc = "crashed", !.crashes = @ + 1, !.at = run.pc,
                          !.seen = AllLinks(tgt)]
    /\ UNCHANGED <<src, categories, excludes, tgt, agentsMd, skillsMd, claudeMd,
                   extracted, ret, cfg, config, dirState, io>>

\* The process dies between the unlink of line 94 (116) and the symlink_to
\* of line 100 (122).
CrashInItem ==
    /\ run.pc = "create"
    /\ run.crashes < MaxCrashes
    /\ run.ci <= Len(categories)
    /\ LET kind == KindOrder[run.k]
       IN  \E e \in run.todo :
              /\ Exists(tgt[kind], e.name) /\ IsSymlink(tgt[kind], e.name)
              /\ CategoryItem(LoopState(tgt[kind]), kind, e, excludes).count = 1
              /\ tgt' = [tgt EXCEPT ![kind] = Remove(@, e.name)]
              /\ run' = [run EXCEPT !.pc = "crashed", !.crashes = @ + 1,
                                    !.at = "item", !.seen = AllLinks(tgt')]
    /\ UNCHANGED <<src, categories, excludes, agentsMd, skillsMd, claudeMd,
                   extracted, ret, cfg, config, dirState, io>>

(***************************************************************************)
(* Two runs of main against the same target tree, one system call at a     *)
(* time (lines 303-315): run[p] is the position of process p.  The         *)
(* configuration is loaded and is the same for both.  iterdir lists a      *)
(* directory when the loop starts; every test (is_symlink, exists) and     *)
(* every change (unlink, symlink_to) is a step of its own, and the other   *)
(* process may act between any two of them.                                *)
(***************************************************************************)
\* Mutant: unlink returns without removing the entry.
OsUnlinkKeeps(d, n) ==
    IF n \notin DOMAIN d THEN [dir |-> d, exc |-> "FileNotFoundError"]
    ELSE [dir |-> d, exc |-> ""]

\* Path.unlink(): removes the entry of the name, whatever file it is; raises
\* when there is none, or when it is a directory.
OsUnlink(d, n) ==
    IF n \notin DOMAIN d THEN [dir |-> d, exc |-> "FileNotFoundError"]
    ELSE IF d[n].t = "dir" THEN [dir |-> d, exc |-> "IsADirectoryError"]
    ELSE [dir |-> Remove(d, n), exc |-> ""]

\* The child passes the tests of lines 85-89 and 104-110 (a listed
\* category) or of lines 128 and 137 (local/).
Handled(k, e, local, excl) ==
    IF local
    THEN (Suffix(e.name) = ".md" /\ e.shape = "file") \/ e.shape = "skill"
    ELSE \/ /\ Suffix(e.name) = ".md" /\ e.shape = "file"
            /\ <<SourceName(SourceDirName(k)), Stem(e.name)>> \notin excl
         \/ /\ ~(Suffix(e.name) = ".md" /\ e.shape = "file")
            /\ e.shape = "skill"
            /\ <<SourceName(SourceDirName(k)), e.name>> \notin excl

\* main is entered; remove_existing_symlinks lists skills/.
ParStart(p) ==
    /\ run[p].pc = "idle"
    /\ run' = [run EXCEPT ![p] = [@ EXCEPT !.pc = "purge", !.k = 1,
                                           !.todo = DOMAIN tgt[KindOrder[1]],
                                           !.ov = Active(run[Other(p)])]]
    /\ UNCHANGED <<src, categories, excludes, tgt, agentsMd, skillsMd, claudeMd,
                   extracted, ret, cfg, config, dirState, io>>

\* item.is_symlink() of line 56 on the next listed entry; at the end of the
\* list the next directory is listed, or the creations begin.
ParIsSymlink(p) ==
    /\ run[p].pc = "purge"
    /\ LET r == run[p]
           kind == KindOrder[r.k]
       IN  IF r.todo # {}
           THEN \E n \in r.todo :
                  run' = [run EXCEPT ![p] =
                            IF IsSymlink(tgt[kind], n)
                            THEN [r EXCEPT !.pc = "purge-unlink", !.cur = n,
                                           !.todo = @ \ {n}]
                            ELSE [r EXCEPT !.todo = @ \ {n}]]
           ELSE run' = [run EXCEPT ![p] =
                          IF r.k < Len(KindOrder)
                          THEN [r EXCEPT !.k = @ + 1,
                                         !.todo = DOMAIN tgt[KindOrder[r.k + 1]]]
                          ELSE [r EXCEPT !.pc = "create", !.k = 1, !.ci = 1,
                                         !.todo = Children(KindOrder[1], CatAt(1))]]
    /\ UNCHANGED <<src, categories, excludes, tgt, agentsMd, skillsMd, claudeMd,
                   extracted, ret, cfg, config, dirState, io>>

\* item.unlink() of line 57.
ParPurgeUnlink(p) ==
    /\ run[p].pc = "purge-unlink"
    /\ LET r == run[p]
           kind == KindOrder[r.k]
           u == OsUnlink(tgt[kind], r.cur)
       IN  /\ tgt' = [tgt EXCEPT ![kind] = u.dir]
           /\ run' = [run EXCEPT ![p] =
                        IF u.exc # "" THEN [r EXCEPT !.pc = "failed", !.exc = u.exc]
                        ELSE [r EXCEPT !.pc = "purge", !.cur = "-"]]
    /\ UNCHANGED <<src, categories, excludes, agentsMd, skillsMd, claudeMd,
                   extracted, ret, cfg, config, dirState, io>>

\* The next child of the directory being walked, up to link_path.exists()
\* (lines 83-92, 102-114, 128-132, 137-139); at the end of the children the
\* next category, local/, the next kind, or the end of the creations.
ParExists(p) ==
    /\ run[p].pc = "create"
    /\ LET r == run[p]
           kind == KindOrder[r.k]
           local == r.ci > Len(categories)
       IN  IF r.todo # {}
           THEN \E e \in r.todo :
                  run' = [run EXCEPT ![p] =
                            IF ~Handled(kind, e, local, excludes)
                            THEN [r EXCEPT !.todo = @ \ {e}]
                            ELSE IF ~Exists(tgt[kind], e.name)
                            THEN [r EXCEPT !.pc = "symlink", !.cur = e]
                            ELSE IF local
                            THEN [r EXCEPT !.todo = @ \ {e}]
                            ELSE [r EXCEPT !.pc = "is-symlink", !.cur = e]]
           ELSE run' = [run EXCEPT ![p] =
                          IF ~local
                          THEN [r EXCEPT !.ci = @ + 1,
                                         !.todo = Children(kind, CatAt(r.ci + 1))]
                          ELSE IF r.k < Len(KindOrder)
                          THEN [r EXCEPT !.k = @ + 1, !.ci = 1,
                                         !.todo = Children(KindOrder[r.k + 1], CatAt(1))]
                          ELSE [r EXCEPT !.pc = "done"]]
    /\ UNCHANGED <<src, categories, excludes, tgt, agentsMd, skillsMd, claudeMd,
                   extracted, ret, cfg, config, dirState, io>>

\* link_path.is_symlink() of lines 93 and 115; otherwise the warning and the
\* next child.
ParLinkIsSymlink(p) ==
    /\ run[p].pc = "is-symlink"
    /\ LET r == run[p]
           kind == KindOrder[r.k]
       IN  run' = [run EXCEPT ![p] =
                     IF IsSymlink(tgt[kind], r.cur.name)
                     THEN [r EXCEPT !.pc = "unlink"]
                     ELSE [r EXCEPT !.pc = "create", !.todo = @ \ {r.cur}, !.cur = "-"]]
    /\ UNCHANGED <<src, categories, excludes, tgt, agentsMd, skillsMd, claudeMd,
                   extracted, ret, cfg, config, dirState, io>>

\* link_path.unlink() of lines 94 and 116.
ParLinkUnlink(p) ==
    /\ run[p].pc = "unlink"
    /\ LET r == run[p]
           kind == KindOrder[r.k]
           u == OsUnlink(tgt[kind], r.cur.name)
       IN  /\ tgt' = [tgt EXCEPT ![kind] = u.dir]
           /\ run' = [run EXCEPT ![p] =
                        IF u.exc # "" THEN [r EXCEPT !.pc = "failed", !.exc = u.exc]
                        ELSE [r EXCEPT !.pc = "symlink"]]
    /\ UNCHANGED <<src, categories, excludes, agentsMd, skillsMd, claudeMd,
                   extracted, ret, cfg, config, dirState, io>>

\* link_path.symlink_to(relative_target) of lines 100, 122, 134 and 141.
ParSymlinkTo(p) ==
    /\ run[p].pc = "symlink"
    /\ LET r == run[p]
           kind == KindOrder[r.k]
           st == SymlinkTo(LoopState(tgt[kind]), r.cur.name,
                           RelativeTarget(kind, CatAt(r.ci), r.cur.name))
       IN  /\ tgt' = [tgt EXCEPT ![kind] = st.dir]
           /\ run' = [run EXCEPT ![p] =
                        IF st.err THEN [r EXCEPT !.pc = "failed", !.exc = st.exc]
                        ELSE [r EXCEPT !.pc = "create", !.todo = @ \ {r.cur},
                                       !.cur = "-"]]
    /\ UNCHANGED <<src, categories, excludes, agentsMd, skillsMd, claudeMd,
                   extracted, ret, cfg, config, dirState, io>>

Next ==
    \/ \E k \in Kinds : RemoveExistingSymlinks(k)
    \/ \E k \in Kinds : CreateSymlinks(k)

NextMain == Main

NextExtract == ExtractSectionsCall

NextMd == UpdateClaudeMd

NextLoad == LoadProjectConfigCall

NextCrash ==
    \/ StartRun
    \/ PurgeStep
    \/ CreateStep
    \/ Crash
    \/ CrashInItem

NextPar ==
    \E p \in Procs :
        \/ ParStart(p)
        \/ ParIsSymlink(p)
        \/ ParPurgeUnlink(p)
        \/ ParExists(p)
        \/ ParLinkIsSymlink(p)
        \/ ParLinkUnlink(p)
        \/ ParSymlinkTo(p)

\* Calls of the two directory operations in any order.
Spec == Init /\ [][Next]_vars

\* The same where a target directory may be missing or readonly.
SpecDirs == InitDirs /\ [][Next]_vars

\* Runs of main.
SpecMain == InitMain /\ [][NextMain]_vars

SpecExtract == InitExtract /\ [][NextExtract]_vars

SpecMd == InitMd /\ [][NextMd]_vars

SpecLoad == InitLoad /\ [][NextLoad]_vars

\* Runs of main that may crash and be started again.
SpecCrash == Init /\ [][NextCrash]_vars

\* Two runs of main at the same time.
SpecPar == InitPar /\ [][NextPar]_vars

(***************************************************************************)
(* Properties.                                                             *)
(***************************************************************************)
Range(s) == {s[i] : i \in DOMAIN s}

\* A child that create_symlinks_from_available treats as an item.
IsItem(e) == (Suffix(e.name) = ".md" /\ e.shape = "file") \/ e.shape = "skill"

\* C1: neither remove_existing_symlinks nor create_symlinks_from_available
\* removes, replaces or changes an entry of a target directory that is not a
\* symlink: every step keeps each ordinary file and directory as it was.
C1_NonLinksUntouched ==
    [][\A k \in Kinds : \A n \in NonLinks(tgt[k]) :
          n \in DOMAIN tgt'[k] /\ tgt'[k][n] = tgt[k][n]]_vars

\* A creation has met an ordinary file under the name of a selected item and
\* skipped it.
C1_Witness ==
    /\ ret.op = "create"
    /\ <<ret.kind, "a.md">> \in ret.warned
    /\ tgt[ret.kind]["a.md"] = FileEntry("manual")

\* C2: after a completed run of main every symlink of every target directory
\* points at an existing item of the source tree of the same kind, in a
\* category of the configuration or in local.
C2_LinksResolveToSelected ==
    (ret.op = "main" /\ ~ret.err) =>
        \A k \in Kinds : \A n \in Links(tgt[k]) :
            \E e \in src :
                /\ e.kind = k
                /\ e.name = n
                /\ IsItem(e)
                /\ e.cat \in Range(categories) \cup {"local"}
                /\ tgt[k][n].to = <<"..", SourceDirName(k), e.cat, e.name>>

\* main has removed a link that was there before and has created one.
C2_Witness ==
    /\ ret.op = "main"
    /\ ret.removed > 0
    /\ Links(tgt["skills"]) # {}

\* C3: a purge-then-create run that directly follows a purge-then-create run
\* of the same directory leaves the same links (names and targets) and its
\* creation returns the same count.
C3_MaterializeTwice ==
    (ret.op = "create" /\ ret.fresh /\ ret.prev # <<>>) =>
        /\ ret.prev[1].links = LinkView(tgt[ret.kind])
        /\ ret.prev[1].count = ret.counts[ret.kind]

\* The second of two runs has ended, with two items under one name.
C3_Witness ==
    /\ ret.op = "create" /\ ret.fresh /\ ret.prev # <<>>
    /\ ret.counts[ret.kind] = 2
    /\ Cardinality(Links(tgt[ret.kind])) = 1

\* The items of kind k that the configuration selects: the items of the listed
\* categories that are not excluded, and the items of local.
Excluded(k, e) ==
    <<k, IF e.shape = "file" THEN Stem(e.name) ELSE e.name>> \in excludes

Selected(k) ==
    {e \in src : /\ e.kind = k
                 /\ IsItem(e)
                 /\ \/ e.cat = "local"
                    \/ e.cat \in Range(categories) /\ ~Excluded(k, e)}

UniqueNames(k) == \A e, f \in Selected(k) : e.name = f.name => e = f

\* C4: when the selected items have distinct names and no ordinary file or
\* directory of the target directory has the name of one, a call of
\* create_symlinks_from_available ends with one link per selected item, named
\* as the item and pointing at it (the .md file, or the whole directory).
C4_OneLinkPerItem ==
    (/\ ret.op = "create"
     /\ UniqueNames(ret.kind)
     /\ \A e \in Selected(ret.kind) : e.name \notin NonLinks(tgt[ret.kind]))
    => \A e \in Selected(ret.kind) :
            /\ IsSymlink(tgt[ret.kind], e.name)
            /\ SourceAt(tgt[ret.kind][e.name].to) = {e}

\* C4 for a creation that directly follows the purge of its directory; the
\* links are then those of the selected items and no others.
C4_AfterPurge ==
    (/\ ret.op = "create" /\ ret.fresh
     /\ UniqueNames(ret.kind)
     /\ \A e \in Selected(ret.kind) : e.name \notin NonLinks(tgt[ret.kind]))
    => /\ \A e \in Selected(ret.kind) :
            /\ IsSymlink(tgt[ret.kind], e.name)
            /\ SourceAt(tgt[ret.kind][e.name].to) = {e}
       /\ Links(tgt[ret.kind]) = {e.name : e \in Selected(ret.kind)}

\* The entry names that stand for item name n: n itself and n.md.
NamesOf(n) == {x \in Names : x = n \/ (Suffix(x) = ".md" /\ Stem(x) = n)}

\* C5: after a purge-then-create run of kind k no symlink of the target
\* directory has the name of an item whose "<k>/<name>" is in the exclude
\* list, in whichever category or in local the item lies.
C5_ExcludedAbsent ==
    (ret.op = "create" /\ ret.fresh) =>
        \A x \in excludes :
            x[1] = ret.kind => \A n \in NamesOf(x[2]) : ~IsSymlink(tgt[ret.kind], n)

\* C5 for the items of the listed categories only.
C5_ExcludedAbsentFromCategories ==
    (ret.op = "create" /\ ret.fresh /\ Children(ret.kind, "local") = {}) =>
        \A x \in excludes :
            x[1] = ret.kind => \A n \in NamesOf(x[2]) : ~IsSymlink(tgt[ret.kind], n)

\* C6 as stated: after a purge-then-create run every item under local/ has a
\* symlink of its name in the target directory, whatever the categories list.
C6_LocalAlwaysLinked ==
    (ret.op = "create" /\ ret.fresh) =>
        \A e \in Children(ret.kind, "local") :
            IsItem(e) => IsSymlink(tgt[ret.kind], e.name)

\* C6 amended: after a purge-then-create run every item under local/ whose
\* name is not held by an ordinary file or directory of the target directory
\* has a symlink of its name there, whatever the categories list.
C6_LocalLinkedUnlessOccupied ==
    (ret.op = "create" /\ ret.fresh) =>
        \A e \in Children(ret.kind, "local") :
            (IsItem(e) /\ e.name \notin NonLinks(tgt[ret.kind]))
                => IsSymlink(tgt[ret.kind], e.name)

\* A run with an empty categories list has linked a skill directory of local/.
C6_Witness ==
    /\ ret.op = "create" /\ ret.fresh /\ ret.kind = "skills"
    /\ categories = <<>>
    /\ IsSymlink(tgt["skills"], "a")
    /\ tgt["skills"]["a"].to = <<"..", "skills-available", "local", "a">>

\* C7: a call of remove_existing_symlinks on a target directory unlinks every
\* direct entry that is a symlink, keeps every other entry as it was (what a
\* subdirectory holds included), leaves the source trees and the other
\* directories alone, and returns the number of symlinks it unlinked.
C7_RemovesExactlyLinks ==
    [][ret'.op = "remove" =>
        /\ \A n \in DOMAIN tgt[ret'.kind] :
              IF tgt[ret'.kind][n].t = "link"
              THEN n \notin DOMAIN tgt'[ret'.kind]
              ELSE n \in DOMAIN tgt'[ret'.kind]
                   /\ tgt'[ret'.kind][n] = tgt[ret'.kind][n]
        /\ DOMAIN tgt'[ret'.kind] \subseteq DOMAIN tgt[ret'.kind]
        /\ \A k \in Kinds \ {ret'.kind} : tgt'[k] = tgt[k]
        /\ src' = src
        /\ ret'.removed = Cardinality({n \in DOMAIN tgt[ret'.kind] :
                                          tgt[ret'.kind][n].t = "link"})]_vars

\* A purge has unlinked a symlink next to a directory that holds a symlink.
C7_Witness ==
    /\ ret.op = "remove" /\ ret.removed = 1
    /\ "a" \in DOMAIN tgt[ret.kind]
    /\ tgt[ret.kind]["a"] = DirEntry({"inner-link"})

\* The subsections of a reference document, by position: line i is an item
\* header, its category is named by the nearest category header above it, and
\* its body runs to the line before the next header of either kind.
IsHeader(doc, i) == doc[i].k \in {"cat", "item"}

CategoryAbove(doc, i) ==
    {doc[j].name : j \in {x \in 1..(i - 1) :
                             /\ doc[x].k = "cat"
                             /\ \A m \in (x + 1)..(i - 1) : doc[m].k # "cat"}}

BodyEnd(doc, i) ==
    IF \E j \in (i + 1)..Len(doc) : IsHeader(doc, j)
    THEN (CHOOSE j \in (i + 1)..Len(doc) :
             IsHeader(doc, j) /\ \A m \in (i + 1)..(j - 1) : ~IsHeader(doc, m)) - 1
    ELSE Len(doc)

Wanted(doc, cats, i) ==
    /\ doc[i].k = "item"
    /\ CategoryAbove(doc, i) \cap Range(cats) # {}
    /\ BodyEnd(doc, i) > i

Block(doc, i) ==
    <<ItemHeader(doc[i].name)>>
    \o [m \in 1..(BodyEnd(doc, i) - i) |-> LineText(doc[i + m])]
    \o <<"">>

RECURSIVE WantedBlocks(_, _, _)
WantedBlocks(doc, cats, i) ==
    IF i > Len(doc) THEN <<>>
    ELSE (IF Wanted(doc, cats, i) THEN Block(doc, i) ELSE <<>>)
         \o WantedBlocks(doc, cats, i + 1)

\* C8: extract_sections returns, in the order of the document, the subsections
\* that have a body line and lie under a category header whose name is in
\* categories, the last subsection of the document included, and nothing of
\* any other subsection (the whole trimmed of blank lines at both ends).
C8_ExtractsListedSections ==
    ret.op = "extract" =>
        LET doc == IF ret.kind = "AGENTS.md" THEN agentsMd ELSE skillsMd
        IN  extracted = Strip(Join(WantedBlocks(doc, categories, 1)))

\* The document ends with a dev subsection that follows a php subsection, and
\* only dev is listed.
C8_Witness ==
    /\ ret.op = "extract" /\ ret.kind = "AGENTS.md"
    /\ categories = <<"dev">>
    /\ agentsMd = <<Line("cat", "php", FALSE), Line("item", "a", FALSE),
                    BlankLine, Line("cat", "dev", FALSE),
                    Line("item", "a", FALSE), Line("text", "t1", FALSE)>>
    /\ extracted = <<"### a", "nl", "t1">>

\* Positions and regions of the markers in a target document.
Count(s, tok) == Cardinality({i \in DOMAIN s : s[i] = tok})

\* Each marker occurs once, each BEGIN before its END, the regions apart.
HasBothPairs(s) ==
    /\ \A tok \in {"BA", "EA", "BS", "ES"} : Count(s, tok) = 1
    /\ First(s, "BA") < First(s, "EA")
    /\ First(s, "BS") < First(s, "ES")
    /\ First(s, "EA") < First(s, "BS") \/ First(s, "ES") < First(s, "BA")

Inside(s, begin, end) == SubSeq(s, First(s, begin) + 1, First(s, end) - 1)

\* The text before, between and after the two regions.
OutsidePairs(s) ==
    LET b1 == IF First(s, "BA") < First(s, "BS") THEN "BA" ELSE "BS"
        e1 == IF b1 = "BA" THEN "EA" ELSE "ES"
        b2 == IF b1 = "BA" THEN "BS" ELSE "BA"
        e2 == IF b1 = "BA" THEN "ES" ELSE "EA"
    IN  <<b1, SubSeq(s, 1, First(s, b1) - 1),
          SubSeq(s, First(s, e1) + 1, First(s, b2) - 1),
          SubSeq(s, First(s, e2) + 1, Len(s))>>

\* The region between a pair holds the notice and text of a reference
\* document, and none of the text "x" of the old target document.
Regenerated(s, begin, end) == ~Has(Inside(s, begin, end), "x")

Replaced(old, new) ==
    /\ HasBothPairs(new)
    /\ OutsidePairs(new) = OutsidePairs(old)
    /\ Regenerated(new, "BA", "EA")
    /\ Regenerated(new, "BS", "ES")

\* C9: a run of update_claude_md on a target document that holds the AGENTS
\* pair and the SKILLS pair replaces the text between each pair (the old text
\* is gone, the markers stay) and keeps the text outside the pairs as it was.
C9_ReplacesBetweenMarkers ==
    [][(ret'.op = "update" /\ claudeMd.exists /\ HasBothPairs(claudeMd.text))
          => Replaced(claudeMd.text, claudeMd'.text)]_vars

\* C9 for the runs that do not raise.
C9_UnlessRaised ==
    [][(ret'.op = "update" /\ ~ret'.err /\ claudeMd.exists
        /\ HasBothPairs(claudeMd.text))
          => Replaced(claudeMd.text, claudeMd'.text)]_vars

HasNoMarker(s) == \A tok \in {"BA", "EA", "BS", "ES"} : ~Has(s, tok)

IsPrefix(p, s) == Len(p) <= Len(s) /\ SubSeq(s, 1, Len(p)) = p

\* The generated blocks stand in s after position m, AGENTS before SKILLS.
At(s, tok, m) == {i \in (m + 1)..Len(s) : s[i] = tok}

BlocksAfter(s, m) ==
    \E a \in At(s, "BA", m) : \E b \in At(s, "EA", a) :
        \E c \in At(s, "BS", b) : At(s, "ES", c) # {}

\* C10 as stated: a run on an existing target document without markers keeps
\* the whole existing content at the start of the new document and appends
\* the generated blocks after it.
C10_KeepsWholeContent ==
    [][(ret'.op = "update" /\ claudeMd.exists /\ HasNoMarker(claudeMd.text))
          => /\ IsPrefix(claudeMd.text, claudeMd'.text)
             /\ BlocksAfter(claudeMd'.text, Len(claudeMd.text))]_vars

\* The existing content without the newlines that end it.
TrimmedLength(s) ==
    IF \E i \in DOMAIN s : s[i] # "nl"
    THEN CHOOSE i \in DOMAIN s : s[i] # "nl" /\ \A j \in (i + 1)..Len(s) : s[j] = "nl"
    ELSE 0

\* C10 amended: a run on an existing target document that lacks a marker of
\* a pair keeps the existing content up to its trailing whitespace at the
\* start of the new document and appends the generated blocks after it.
C10_KeepsContentButTrailingSpace ==
    [][(/\ ret'.op = "update" /\ claudeMd.exists
        /\ \E tok \in {"BA", "EA", "BS", "ES"} : ~Has(claudeMd.text, tok))
          => LET m == TrimmedLength(claudeMd.text)
             IN  /\ IsPrefix(SubSeq(claudeMd.text, 1, m), claudeMd'.text)
                 /\ claudeMd'.text[m + 1] = "nl"
                 /\ claudeMd'.text[m + 2] = "nl"
                 /\ claudeMd'.text[m + 3] = "## Agent and Skill Guidelines"
                 /\ BlocksAfter(claudeMd'.text, m + 3)]_vars

\* The blocks were appended to a document that was the text x, with or
\* without newlines after it.
C10_Witness ==
    /\ ret.op = "update" /\ ~ret.err
    /\ IsPrefix(<<"x", "nl", "nl", "## Agent and Skill Guidelines">>, claudeMd.text)
    /\ Count(claudeMd.text, "BA") = 1

HasAllMarkers(s) == \A tok \in {"BA", "EA", "BS", "ES"} : Has(s, tok)

\* C11: update_claude_md completes without raising and leaves a CLAUDE.md
\* that holds the BEGIN and END markers of AGENTS and of SKILLS, whichever of
\* AGENTS.md, SKILLS.md and CLAUDE.md exist, with or without markers in
\* CLAUDE.md, and whatever text is extracted.
C11_NeverAborts ==
    ret.op = "update" =>
        /\ io.raised = ""
        /\ claudeMd.exists
        /\ HasAllMarkers(claudeMd.text)

\* C11 for a target document that is absent or lacks a marker (the file is
\* created, or the blocks are appended).
C11_WhenNotReplacing ==
    [][(ret'.op = "update" /\ (~claudeMd.exists \/ ~HasAllMarkers(claudeMd.text)))
          => /\ io'.raised = ""
             /\ claudeMd'.exists
             /\ HasAllMarkers(claudeMd'.text)]_vars

\* C12: load_project_config reads <root>/project.json when that file exists
\* and <root>/.claude/project.json only when it does not; a valid file read is
\* returned as the configuration; when neither file exists the two error lines
\* are printed and the function leaves with sys.exit(1), no traceback, and
\* returns no configuration.
C12_LoadsDirectThenNested ==
    ret.op = "load" =>
        /\ cfg.direct.state # "absent" => ret.kind = "direct"
        /\ (cfg.direct.state = "absent" /\ cfg.nested.state # "absent")
              => ret.kind = "nested"
        /\ cfg.direct.state = "valid"
              => (config = cfg.direct.config /\ config.loaded /\ io.raised = "")
        /\ (cfg.direct.state = "absent" /\ cfg.nested.state = "valid")
              => (config = cfg.nested.config /\ config.loaded /\ io.raised = "")
        /\ (cfg.direct.state = "absent" /\ cfg.nested.state = "absent")
              => /\ io.raised = "SystemExit(1)"
                 /\ NotFoundMessages \subseteq io.stdout
                 /\ io.stderr = {}
                 /\ ~config.loaded

\* The call has found neither file and has left with sys.exit(1).
C12_Witness ==
    /\ ret.op = "load"
    /\ cfg.direct.state = "absent" /\ cfg.nested.state = "absent"
    /\ io.raised = "SystemExit(1)"

\* The call has fallen back to the file of the development location, with
\* its own categories.
C12_WitnessFallback ==
    /\ ret.op = "load" /\ ret.kind = "nested"
    /\ config.loaded /\ config.categories = <<<<"php", "dev">>>>

Guidance == Msg("Run /init-project to create one interactively.", "-", "-", 0)

ParseError == Msg("Traceback", "-", "JSONDecodeError", 0)

\* C13: when the configuration file exists but is not valid JSON, a run of
\* main is fatal as it is for a missing file: the parse error is reported, no
\* configuration is used in its place, the user is told to run the
\* interactive setup, and the process exits with a non-zero status.
C13_MalformedIsFatalWithGuidance ==
    (ret.op = "main" /\ cfg.direct.state = "malformed") =>
        /\ io.exit = "1"
        /\ ParseError \in io.stdout \cup io.stderr
        /\ ~config.loaded
        /\ Guidance \in io.stdout \cup io.stderr

\* C13 without the guidance: the parse error is reported, nothing is loaded
\* or changed in its place, and the exit status is 1.
C13_MalformedIsFatal ==
    (ret.op = "main" /\ cfg.direct.state = "malformed") =>
        /\ io.exit = "1"
        /\ ParseError \in io.stderr
        /\ ~config.loaded
        /\ tgt = SampleTgt

\* C14: when a run of main has crashed between two filesystem operations of
\* its purges or creations, a later run that completes, with the same
\* configuration and source trees, ends with the symlinks in the three target
\* directories that a run without crash ends with.
C14_ConvergesAfterCrash ==
    run.pc = "done" =>
        /\ AllLinks(tgt) \in run.clean
        /\ Cardinality(run.clean) = 1

\* A run has completed after a crash in the creations that had left some of
\* the links only.
C14_Witness ==
    /\ run.pc = "done" /\ run.crashes = 1 /\ run.at = "create"
    /\ run.seen # AllLinks(tgt)
    /\ \E k \in Kinds : DOMAIN run.seen[k] # {}

\* A run has completed after a crash between an unlink and its symlink_to.
C14_WitnessInItem ==
    /\ run.pc = "done" /\ run.crashes = 1 /\ run.at = "item"

\* The lists that name the categories of cats, in any order, with or without
\* repetitions.
Variants(cats) == {c \in SeqsUpTo(CfgCats, MaxCats + 1) : Range(c) = Range(cats)}

\* The links that a purge-then-create run of kind k with the list cats leaves.
Materialized(k, cats) ==
    {LinkView(st.dir) :
        st \in CreateSymlinksFromAvailable(k, RemoveExistingSymlinksDir(tgt[k]),
                                           cats, excludes)}

\* C15: the symlinks that a purge-then-create run leaves (names and targets)
\* are the same for every order of the categories list and with or without
\* repeated entries in it, whatever the source tree.
C15_OrderIrrelevant ==
    (ret.op = "create" /\ ret.fresh) =>
        \A c \in Variants(categories) :
            Materialized(ret.kind, c) = {LinkView(tgt[ret.kind])}

\* C15 for source trees in which no two items of listed categories share a
\* name.
C15_WhenNamesDiffer ==
    (/\ ret.op = "create" /\ ret.fresh
     /\ \A e, f \in src : (/\ e.kind = ret.kind /\ f.kind = ret.kind
                           /\ IsItem(e) /\ IsItem(f)
                           /\ {e.cat, f.cat} \subseteq Range(categories)
                           /\ e.name = f.name) => e = f)
    => \A c \in Variants(categories) :
            Materialized(ret.kind, c) = {LinkView(tgt[ret.kind])}

\* C16: the count that create_symlinks_from_available returns on a freshly
\* purged target directory is the number of symlinks that the directory holds
\* after the call, whatever the configuration and the source tree.
C16_CountIsLinksPresent ==
    (ret.op = "create" /\ ret.fresh /\ ~ret.err) =>
        ret.counts[ret.kind] = Cardinality(Links(tgt[ret.kind]))

\* C16 for a categories list without repetition and source trees in which no
\* two items of listed categories share a name.
C16_WhenNamesDiffer ==
    (/\ ret.op = "create" /\ ret.fresh /\ ~ret.err
     /\ \A i, j \in DOMAIN categories : categories[i] = categories[j] => i = j
     /\ \A e, f \in src : (/\ e.kind = ret.kind /\ f.kind = ret.kind
                           /\ IsItem(e) /\ IsItem(f)
                           /\ {e.cat, f.cat} \subseteq Range(categories)
                           /\ e.name = f.name) => e = f)
    => ret.counts[ret.kind] = Cardinality(Links(tgt[ret.kind]))

\* C17: remove_existing_symlinks and create_symlinks_from_available on a
\* target directory that does not exist, or with a source root that does not
\* exist, raise nothing and report zero items (count 0).
C17_MissingDirectoryNotFatal ==
    (/\ ret.op \in {"remove", "create"}
     /\ \/ dirState[ret.kind] = "missing"
        \/ \A e \in src : e.kind # ret.kind)
    => /\ io.raised = ""
       /\ ret.removed = 0
       /\ ret.counts[ret.kind] = 0

\* C17 for the source side: with a target directory that exists, a source
\* root that does not exist gives count 0 and no exception, and a listed
\* category without directory or an absent local/ adds no link to a freshly
\* purged directory.
C17_MissingSourceSkipped ==
    (ret.op = "create" /\ dirState[ret.kind] = "ok") =>
        /\ (\A e \in src : e.kind # ret.kind)
              => (io.raised = "" /\ ret.counts[ret.kind] = 0)
        /\ ret.fresh =>
              \A c \in (Range(categories) \cup {"local"}) :
                 Children(ret.kind, c) = {} =>
                    \A n \in Links(tgt[ret.kind]) : tgt[ret.kind][n].to[3] # c

\* Kind k has been materialized: every selected item whose name no ordinary
\* file or directory holds has its link, and the count of k is printed.
KindMaterialized(k) ==
    /\ \A e \in Selected(k) :
          e.name \notin NonLinks(tgt[k]) => IsSymlink(tgt[k], e.name)
    /\ \E n \in 0..(2 * (MaxItems + 1)) : Msg("loaded", k, "-", n) \in io.stdout

\* C18: when the creation of symlinks fails for one kind (its target
\* directory is readonly), main still materializes the other kinds and
\* prints their counts.
C18_KindsIndependent ==
    (/\ ret.op = "main" /\ config.loaded
     /\ \A k \in Kinds : dirState[k] # "missing"
     /\ \A k \in Kinds : dirState[k] = "readonly" => Links(tgt[k]) = {})
    => \A k \in Kinds : dirState[k] = "ok" => KindMaterialized(k)

\* C18 for runs in which nothing fails.
C18_WhenNothingFails ==
    (ret.op = "main" /\ config.loaded /\ dirState = AllOk) =>
        \A k \in Kinds : KindMaterialized(k)

\* The conditions the run is to recover from: no target directory is
\* readonly and no reference document holds a backslash escape.
Recoverable ==
    /\ \A k \in Kinds : dirState[k] # "readonly"
    /\ agentsMd # EscapeDoc /\ skillsMd # EscapeDoc

\* C19: a run of main whose configuration loads ends with exit status 0
\* under every recoverable condition: an ordinary file or directory under the
\* name of an item, a missing category directory, local/ or root directory, a
\* missing reference document, a target document without markers.
C19_ExitZeroWhenLoaded ==
    (ret.op = "main" /\ config.loaded /\ Recoverable) => io.exit = "0"

\* C19 when the three target directories exist; and a configuration that
\* cannot be loaded gives exit status 1.
C19_WhenTargetsExist ==
    ret.op = "main" =>
        /\ (config.loaded /\ Recoverable /\ \A k \in Kinds : dirState[k] = "ok")
              => io.exit = "0"
        /\ ~config.loaded => io.exit = "1"

SkipWarning(k, n) == Msg("Warning: exists and is not a symlink, skipping", k, n, 0)

\* C20: every item that a creation skips because an ordinary file or
\* directory holds its name, be it an item of a listed category or of local/,
\* gives a warning, and the warning is written to a stream other than the one
\* of the counts and the success line (stdout).
C20_WarningsOnSideChannel ==
    (ret.op = "create" /\ ~ret.err) =>
        \A e \in Selected(ret.kind) :
            e.name \in NonLinks(tgt[ret.kind]) =>
                /\ SkipWarning(ret.kind, e.name) \in io.stderr
                /\ SkipWarning(ret.kind, e.name) \notin io.stdout

\* What the code does give: a skipped item of a listed category is warned of
\* on stdout.
C20_CategoryConflictPrinted ==
    (ret.op = "create" /\ ~ret.err) =>
        \A e \in Selected(ret.kind) :
            (e.cat \in Range(categories) /\ ~Excluded(ret.kind, e)
             /\ e.name \in NonLinks(tgt[ret.kind]))
                => SkipWarning(ret.kind, e.name) \in io.stdout

\* C21: a call of create_symlinks_from_available on a target directory that
\* holds a symlink under the name of a selected item raises nothing, leaves
\* under that name the link to the selected item, and counts it, wherever the
\* old symlink pointed and whether the item lies in a listed category or in
\* local/.
C21_ReplacesExistingLink ==
    [][(/\ ret'.op = "create"
        /\ UniqueNames(ret'.kind)
        /\ \E e \in Selected(ret'.kind) : IsSymlink(tgt[ret'.kind], e.name))
          => /\ ~ret'.err
             /\ \A e \in Selected(ret'.kind) :
                   IsSymlink(tgt[ret'.kind], e.name) =>
                      /\ IsSymlink(tgt'[ret'.kind], e.name)
                      /\ SourceAt(tgt'[ret'.kind][e.name].to) = {e}
             /\ ret'.counts[ret'.kind] >=
                   Cardinality({e \in Selected(ret'.kind) :
                                   IsSymlink(tgt[ret'.kind], e.name)})]_vars

\* C21 for the items of listed categories whose old symlink resolves.
C21_ReplacesLiveLinkOfCategoryItem ==
    [][(/\ ret'.op = "create"
        /\ UniqueNames(ret'.kind)
        /\ \A n \in Links(tgt[ret'.kind]) : Exists(tgt[ret'.kind], n))
          => /\ ~ret'.err
             /\ \A e \in Selected(ret'.kind) :
                   (e.cat # "local" /\ IsSymlink(tgt[ret'.kind], e.name)) =>
                      /\ IsSymlink(tgt'[ret'.kind], e.name)
                      /\ SourceAt(tgt'[ret'.kind][e.name].to) = {e}]_vars

\* C22: when an item of local/ and an item of a listed category have the
\* same name, the symlink of that name after a purge-then-create run points at
\* the item of local/.
C22_LocalOverrides ==
    (ret.op = "create" /\ ret.fresh /\ ~ret.err) =>
        \A e \in Children(ret.kind, "local") :
            (/\ IsItem(e)
             /\ e.name \notin NonLinks(tgt[ret.kind])
             /\ \E f \in Selected(ret.kind) : f.cat # "local" /\ f.name = e.name)
            => /\ IsSymlink(tgt[ret.kind], e.name)
               /\ tgt[ret.kind][e.name].to = RelativeTarget(ret.kind, "local", e.name)

\* What the code gives: the link points at the item of the listed category.
C22_CategoryWins ==
    (ret.op = "create" /\ ret.fresh /\ ~ret.err) =>
        \A e \in Children(ret.kind, "local") :
            (/\ IsItem(e)
             /\ e.name \notin NonLinks(tgt[ret.kind])
             /\ \E f \in Selected(ret.kind) : f.cat # "local" /\ f.name = e.name)
            => /\ IsSymlink(tgt[ret.kind], e.name)
               /\ tgt[ret.kind][e.name].to[3] \in Range(categories)

ExactlyOnePair(s, begin, end) ==
    Count(s, begin) = 1 /\ Count(s, end) = 1 /\ First(s, begin) < First(s, end)

\* C23: on a target document that holds the AGENTS pair and no SKILLS marker
\* a run of update_claude_md replaces the AGENTS region where it is with the
\* fresh block, and appends the SKILLS block alone at the end of the document.
C23_SectionsIndependent ==
    [][(/\ ret'.op = "update" /\ claudeMd.exists
        /\ ExactlyOnePair(claudeMd.text, "BA", "EA")
        /\ ~Has(claudeMd.text, "BS") /\ ~Has(claudeMd.text, "ES"))
          => /\ ExactlyOnePair(claudeMd'.text, "BA", "EA")
             /\ First(claudeMd'.text, "BA") = First(claudeMd.text, "BA")
             /\ Regenerated(claudeMd'.text, "BA", "EA")
             /\ ExactlyOnePair(claudeMd'.text, "BS", "ES")
             /\ First(claudeMd'.text, "EA") < First(claudeMd'.text, "BS")]_vars

\* What the code gives: the old AGENTS region stays as it was and both blocks
\* are appended after the document.
C23_BothBlocksAppended ==
    [][(/\ ret'.op = "update" /\ claudeMd.exists
        /\ ExactlyOnePair(claudeMd.text, "BA", "EA")
        /\ ~Has(claudeMd.text, "BS") /\ ~Has(claudeMd.text, "ES"))
          => /\ Count(claudeMd'.text, "BA") = 2
             /\ Inside(claudeMd'.text, "BA", "EA") = Inside(claudeMd.text, "BA", "EA")
             /\ ExactlyOnePair(claudeMd'.text, "BS", "ES")]_vars

AtMostOnePair(s, begin, end) ==
    (~Has(s, begin) /\ ~Has(s, end)) \/ ExactlyOnePair(s, begin, end)

\* C24: a run of update_claude_md on a target document that is absent or
\* holds each of the two pairs at most once leaves a document with one BEGIN
\* and one END marker of AGENTS and of SKILLS; by induction so does every
\* sequence of runs from such a document.
C24_ExactlyOnePairEach ==
    [][(/\ ret'.op = "update"
        /\ claudeMd.exists => (/\ AtMostOnePair(claudeMd.text, "BA", "EA")
                               /\ AtMostOnePair(claudeMd.text, "BS", "ES")))
          => /\ ExactlyOnePair(claudeMd'.text, "BA", "EA")
             /\ ExactlyOnePair(claudeMd'.text, "BS", "ES")]_vars

\* C24 from a document that is absent, holds no marker, or holds both pairs
\* with their regions apart.
C24_FromNoneOrBoth ==
    [][(/\ ret'.op = "update"
        /\ claudeMd.exists => (HasNoMarker(claudeMd.text) \/ HasBothPairs(claudeMd.text)))
          => /\ ExactlyOnePair(claudeMd'.text, "BA", "EA")
             /\ ExactlyOnePair(claudeMd'.text, "BS", "ES")]_vars

\* C29: with AGENTS.md, SKILLS.md and the categories unchanged, a run of
\* update_claude_md that follows a run which created the document, appended
\* the blocks to a document without markers, or replaced the marker regions,
\* leaves CLAUDE.md as that run left it.
C29_SecondRunIdentical ==
    [][(/\ ret.op = "update" /\ ret'.op = "update" /\ ~ret.err
        /\ \/ ret.kind \in {"create", "replace"}
           \/ ret.kind = "append" /\ ret.prev = <<{}>>)
          => claudeMd' = claudeMd]_vars

NoBackslash(doc) ==
    LET t == ExtractSections(doc, categories)
    IN  ~TemplateError(t) /\ ExpandTemplate(t) = t

\* C29 for the documents where it holds: the first run created the document,
\* appended to a document without markers, or replaced the regions and left
\* two pairs that lie apart, and the extracted texts hold no backslash.
C29_FromNoneOrBoth ==
    [][(/\ ret.op = "update" /\ ret'.op = "update" /\ ~ret.err
        /\ NoBackslash(agentsMd) /\ NoBackslash(skillsMd)
        /\ \/ ret.kind = "create"
           \/ ret.kind = "append" /\ ret.prev = <<{}>>
           \/ ret.kind = "replace" /\ HasBothPairs(claudeMd.text))
          => claudeMd' = claudeMd]_vars

\* The stretch of s from the first begin marker through the first end marker.
Region(s, begin, end) == SubSeq(s, First(s, begin), First(s, end))

\* C25: a run of update_claude_md on a target document that holds both pairs
\* does not raise, and leaves as the AGENTS region the begin marker, the
\* notice, a blank line, the text extract_sections returns for AGENTS.md
\* token for token, a blank line and the end marker; likewise for SKILLS.
C25_RegionIsExtractedText ==
    [][(ret'.op = "update" /\ claudeMd.exists /\ HasBothPairs(claudeMd.text))
          => /\ ~ret'.err
             /\ Region(claudeMd'.text, "BA", "EA")
                    = AgentSection(ExtractSections(agentsMd, categories))
             /\ Region(claudeMd'.text, "BS", "ES")
                    = SkillSection(ExtractSections(skillsMd, categories))]_vars

\* C25 for the extracted texts that hold no backslash.
C25_WithoutBackslash ==
    [][(/\ ret'.op = "update" /\ claudeMd.exists /\ HasBothPairs(claudeMd.text)
        /\ NoBackslash(agentsMd) /\ NoBackslash(skillsMd))
          => /\ ~ret'.err
             /\ Region(claudeMd'.text, "BA", "EA")
                    = AgentSection(ExtractSections(agentsMd, categories))
             /\ Region(claudeMd'.text, "BS", "ES")
                    = SkillSection(ExtractSections(skillsMd, categories))]_vars

\* A backslash-n of the extracted text is a newline in the region, with no
\* error raised.
C25_BackslashNBecomesNewline ==
    [][(/\ ret'.op = "update" /\ claudeMd.exists /\ HasBothPairs(claudeMd.text)
        /\ agentsMd = NewlineDoc)
          => /\ ~ret'.err
             /\ Region(claudeMd'.text, "BA", "EA")
                    = AgentSection(ExpandTemplate(ExtractSections(agentsMd, categories)))
             /\ Region(claudeMd'.text, "BA", "EA")
                    # AgentSection(ExtractSections(agentsMd, categories))]_vars

\* The block of the subsection at line i as the document has it: the header
\* line, the body lines, one blank line.
OriginalBlock(doc, i) ==
    <<HeaderLine(doc[i])>>
    \o [m \in 1..(BodyEnd(doc, i) - i) |-> LineText(doc[i + m])]
    \o <<"">>

RECURSIVE OriginalBlocks(_, _, _)
OriginalBlocks(doc, cats, i) ==
    IF i > Len(doc) THEN <<>>
    ELSE (IF Wanted(doc, cats, i) THEN OriginalBlock(doc, i) ELSE <<>>)
         \o OriginalBlocks(doc, cats, i + 1)

\* C26: what extract_sections returns is, for each subsection it emits, the
\* header line of the subsection as the document has it, its body lines up to
\* the next header of either kind, and one blank line, the whole trimmed of
\* blank lines at both ends.
C26_BlocksAreOriginalLines ==
    ret.op = "extract" =>
        LET doc == IF ret.kind = "AGENTS.md" THEN agentsMd ELSE skillsMd
        IN  extracted = Strip(Join(OriginalBlocks(doc, categories, 1)))

\* C26 for the documents whose item headers hold the name and nothing else.
C26_WhenHeaderIsNameOnly ==
    ret.op = "extract" =>
        LET doc == IF ret.kind = "AGENTS.md" THEN agentsMd ELSE skillsMd
        IN  (\A i \in DOMAIN doc : ~doc[i].tail)
                => extracted = Strip(Join(OriginalBlocks(doc, categories, 1)))

\* A header line with text after the name is emitted cut to the name.
C26_HeaderCutToName ==
    (/\ ret.op = "extract" /\ ret.kind = "AGENTS.md" /\ categories = <<"dev">>
     /\ agentsMd = <<Line("cat", "dev", FALSE), Line("item", "a", TRUE),
                     Line("text", "t1", FALSE)>>)
        => extracted = <<"### a", "nl", "t1">>

\* The configuration cannot be loaded: no file in either location, or the
\* file that is read does not parse.
NotLoadable(c) ==
    \/ c.direct.state = "absent" /\ c.nested.state = "absent"
    \/ c.direct.state = "malformed"
    \/ c.direct.state = "absent" /\ c.nested.state = "malformed"

\* C28: a run of main whose configuration cannot be loaded changes nothing:
\* the entries of skills/, agents/ and commands/ and CLAUDE.md are after the
\* run what they were before it, and the exit status is 1.
C28_NoMutationWithoutConfig ==
    [][(ret'.op = "main" /\ NotLoadable(cfg))
          => /\ tgt' = tgt
             /\ claudeMd' = claudeMd
             /\ io'.exit = "1"]_vars

\* main has run on a file that does not parse, and the stale link of skills/
\* that a purge removes is still there, with no CLAUDE.md written.
C28_Witness ==
    /\ ret.op = "main" /\ cfg.direct.state = "malformed"
    /\ "a.md" \in Links(tgt["skills"])
    /\ ~claudeMd.exists
    /\ io.exit = "1"

\* Both locations are empty: the same.
C28_WitnessMissing ==
    /\ ret.op = "main" /\ cfg = NoFiles
    /\ "a.md" \in Links(tgt["skills"])
    /\ ~claudeMd.exists
    /\ io.exit = "1"

\* C30: in every step of two concurrent runs each entry of a target directory
\* stays as it is, or it is a symlink and is removed: an entry that is not a
\* symlink is neither removed nor replaced, and no entry (a symlink included)
\* is overwritten by a creation.
C30_NonLinksNeverTouched ==
    [][\A k \in Kinds : \A n \in DOMAIN tgt[k] :
          \/ n \in DOMAIN tgt'[k] /\ tgt'[k][n] = tgt[k][n]
          \/ n \notin DOMAIN tgt'[k] /\ tgt[k][n].t = "link"]_vars

Overlapped == run[1].ov \/ run[2].ov

Ended(p) == run[p].pc \in {"done", "failed"}

\* Two runs that overlapped have ended, one of them after an unlink found
\* its entry gone; the directory under the name of the skill and the two
\* files are still there.
C30_Witness ==
    /\ Overlapped /\ Ended(1) /\ Ended(2)
    /\ \E p \in Procs : run[p].exc = "FileNotFoundError"
    /\ tgt["skills"] = Put(EmptyDir, "a", DirEntry({}))
    /\ "a.md" \in DOMAIN tgt["agents"] /\ tgt["agents"]["a.md"] = LinkEntry(RelativeTarget("agents", "dev", "a.md"))
    /\ tgt["commands"]["a.md"] = FileEntry("init")

\* Both runs ended without error after they overlapped, with a file under
\* the name of the agent.
C30_WitnessBothDone ==
    /\ Overlapped /\ run[1].pc = "done" /\ run[2].pc = "done"
    /\ tgt["agents"] = Put(EmptyDir, "a.md", FileEntry("mine"))
    /\ IsSymlink(tgt["skills"], "a")

\* C27: two runs that interleave can end in an error or with links that a
\* run alone does not leave, and only runs that interleave can: a run fails
\* only when the other run was running with it, with FileExistsError from
\* symlink_to or FileNotFoundError from unlink; and two runs that did not
\* overlap both end without error with the links of a run that is alone.
C27_FailsOnlyWhenInterleaved ==
    /\ \A p \in Procs :
          run[p].pc = "failed" =>
              /\ Overlapped
              /\ run[p].exc \in {"FileExistsError", "FileNotFoundError"}
    /\ (Ended(1) /\ Ended(2) /\ ~Overlapped) =>
          /\ run[1].pc = "done" /\ run[2].pc = "done"
          /\ AllLinks(tgt) \in CleanRuns

\* A run has failed creating a link the other run has just created.
C27_Witness ==
    \E p \in Procs :
        /\ run[p].pc = "failed" /\ run[p].exc = "FileExistsError"
        /\ IsSymlink(tgt[KindOrder[run[p].k]], run[p].cur.name)
        /\ Ended(Other(p))

\* A run has failed removing a link the other run has just removed.
C27_WitnessRemoved ==
    \E p \in Procs :
        /\ run[p].pc = "failed" /\ run[p].exc = "FileNotFoundError"
        /\ run[Other(p)].pc = "done"

\* Both runs have ended, one of them in an error, and the links are not
\* those of a run that is alone: skills/a resolves to local/a, not dev/a.
C27_WitnessWrongLink ==
    /\ Ended(1) /\ Ended(2)
    /\ AllLinks(tgt) \notin CleanRuns
    /\ IsSymlink(tgt["skills"], "a")
    /\ tgt["skills"]["a"].to = RelativeTarget("skills", "local", "a")

\* Runs that both end without error leave the links of a run that is alone.
C27_DoneMeansClean ==
    (run[1].pc = "done" /\ run[2].pc = "done") => AllLinks(tgt) \in CleanRuns

====
